---- MODULE Spec2Model ----
(***************************************************************************)
(* Model of src/bin.js: the batch orchestrator (main, batchProcess,        *)
(* processBatch), the conversion runner (processVideo and its stderr /     *)
(* close / error handlers) and the process-wide STATUS object.             *)
(*                                                                         *)
(* The program is single threaded: every action below is one run of a      *)
(* handler or of an async continuation up to its next await.  The i-th     *)
(* matched pair is identified by i; its label path.basename(video) is      *)
(* distinct from every other pair's because the videos are distinct        *)
(* entries of one directory.  In Spec the listing is left abstract and the  *)
(* label of the i-th pair is i; SpecMatch and SpecKeys draw a concrete      *)
(* listing and run findMatchingFiles on it, and SpecKeys runs the           *)
(* conversions with STATUS keyed by the real labels.  SpecStderr observes   *)
(* the error stream of a single conversion and SpecLive adds the fairness   *)
(* of the children's terminating events.                                    *)
(*                                                                         *)
(* Child-process events follow the ChildProcess contract of the runtime:   *)
(* a launched child delivers stderr data and then 'close' with its exit    *)
(* code; a child that cannot be launched delivers 'error' and, in the same *)
(* synchronous emission, 'close' with the negated errno as code.           *)
(***************************************************************************)
EXTENDS Integers, FiniteSets, Sequences, TLC

\* Largest number of matched pairs findMatchingFiles returns in the model.
MaxPairs == 5

\* Batch size. bin.js:210 fixes it to 10; the model scales it down so that
\* several batches fit in the state space.
BATCH_SIZE == 2

\* Values (in hundredths of a second) a "Duration:" marker can carry.
DurationValues == {0, 200}

\* Values (in hundredths of a second) a "time=" marker can carry.
TimeValues == {300}

Pairs == 1..MaxPairs

VARIABLES
    pc,            \* position of main/batchProcess
    exitCode,      \* exit status of the process (meaningful when pc = "exited")
    reported,      \* top-level messages printed so far
    outputDirCreated, \* fs.mkdir(outputDir) succeeded
    matches,       \* matches.length
    currentIndex,  \* batchProcess: currentIndex
    STATUS,        \* the global STATUS object
    ffmpeg,        \* per pair: state of the spawned child process
    duration,      \* per pair: closure variable of processVideo
    lastProgress,  \* per pair: closure variable of processVideo, in tenths of a point
    promise,       \* per pair: state of the promise returned by processVideo
    stdinListener, \* a once('data') listener is registered on process.stdin
    batchLog,      \* the per-batch reports printed so far
    summary,       \* the final statistics printed (<<>> until printed)
    acks,          \* history: stdin data events consumed by the gate
    spawnCount,    \* history: per pair, number of spawn('ffmpeg') calls
    incs,          \* history: per pair, number of STATUS.completed++ executed
    outcome,       \* history: per pair, what the child process did
    files,         \* the entries of the input directory, in enumeration order
    matchList,     \* the pairs returned by findMatchingFiles
    label,         \* per pair: filename = path.basename(videoPath), the key in STATUS
    event,         \* history: what the last observed stderr chunk did
    firstDuration  \* history: per pair, the first Duration marker of the stream

vars == <<pc, exitCode, reported, outputDirCreated, matches, currentIndex,
          STATUS, ffmpeg, duration, lastProgress, promise, stdinListener,
          batchLog, summary, acks, spawnCount, incs, outcome,
          files, matchList, label, event, firstDuration>>

----------------------------------------------------------------------------
\* Map helpers (JavaScript Map keyed by label)

MapSet(m, k, v) == [x \in (DOMAIN m) \cup {k} |-> IF x = k THEN v ELSE m[x]]

MapDelete(m, k) == [x \in (DOMAIN m) \ {k} |-> m[x]]

EmptyMap == [x \in {} |-> 0]

Abs(x) == IF x < 0 THEN -x ELSE x

\* ((currentTime / duration) * 100).toFixed(1), in tenths of a point
Progress(currentTime, d) == (2000 * currentTime + d) \div (2 * d)

\* A slice that starts one element early and so overlaps the previous one.
SliceOverlap(start, n) == {i \in 1..n : start <= i /\ i <= start + BATCH_SIZE}

\* matches.slice(start, start + BATCH_SIZE): the pairs of that slice
Slice(start, n) == {i \in 1..n : start < i /\ i <= start + BATCH_SIZE}

\* No emission of the runtime is half way: 'error' has been delivered to a
\* child's listeners and its 'close' has not yet.
NoPendingEmit == \A i \in Pairs : ffmpeg[i] # "errored"

\* No stderr chunk has been observed.
NoEvent == [item |-> 0, progress |-> <<>>, before |-> 0, after |-> 0,
            stored |-> <<0, 0>>, rendered |-> FALSE]

----------------------------------------------------------------------------
InitRun ==
    /\ pc = "main"
    /\ exitCode = 0
    /\ reported = {}
    /\ outputDirCreated = FALSE
    /\ matches = 0
    /\ currentIndex = 0
    /\ STATUS = [total |-> 0, completed |-> 0,
                 inProgress |-> EmptyMap, results |-> EmptyMap]
    /\ ffmpeg = [i \in Pairs |-> "none"]
    /\ duration = [i \in Pairs |-> 0]
    /\ lastProgress = [i \in Pairs |-> 0]
    /\ promise = [i \in Pairs |-> "none"]
    /\ stdinListener = FALSE
    /\ batchLog = <<>>
    /\ summary = <<>>
    /\ acks = 0
    /\ spawnCount = [i \in Pairs |-> 0]
    /\ incs = [i \in Pairs |-> 0]
    /\ outcome = [i \in Pairs |-> "none"]
    /\ matchList = <<>>
    /\ label = [i \in Pairs |-> i]
    /\ event = NoEvent
    /\ firstDuration = [i \in Pairs |-> <<>>]

\* The state at the start of main; the directory listing is not looked at.
Init ==
    /\ InitRun
    /\ files = <<>>

----------------------------------------------------------------------------
\* processBatch(matches, outputDir, start, start + BATCH_SIZE): every task of
\* the slice runs synchronously up to its await, i.e. through the executor
\* of processVideo: STATUS.inProgress.set(filename, 0) and spawn.
ProcessBatchInProgress(S, start, n) ==
    [x \in (DOMAIN S.inProgress) \cup {label'[i] : i \in Slice(start, n)} |->
        IF x \in {label'[i] : i \in Slice(start, n)} THEN 0 ELSE S.inProgress[x]]

\* Final statistics whose failure count is derived from STATUS.completed.
FinalStatisticsFromCompleted(S, n) ==
    [total   |-> n,
     success |-> Cardinality({k \in DOMAIN S.results : S.results[k]}),
     failure |-> S.completed - Cardinality({k \in DOMAIN S.results : S.results[k]})]

\* Final statistics of batchProcess, computed from STATUS.results.
FinalStatistics(S, n) ==
    [total   |-> n,
     success |-> Cardinality({k \in DOMAIN S.results : S.results[k]}),
     failure |-> Cardinality({k \in DOMAIN S.results : ~S.results[k]})]

\* The while loop of batchProcess entered at its head with currentIndex = idx,
\* run up to the next await (processBatch) or to the return of batchProcess.
WhileLoop(idx, n, S) ==
    /\ currentIndex' = idx
    /\ IF idx < n
       THEN /\ STATUS' = [S EXCEPT !.inProgress = ProcessBatchInProgress(S, idx, n)]
            /\ ffmpeg' = [i \in Pairs |-> IF i \in Slice(idx, n) THEN "running" ELSE ffmpeg[i]]
            /\ promise' = [i \in Pairs |-> IF i \in Slice(idx, n) THEN "pending" ELSE promise[i]]
            /\ duration' = [i \in Pairs |-> IF i \in Slice(idx, n) THEN 0 ELSE duration[i]]
            /\ lastProgress' = [i \in Pairs |-> IF i \in Slice(idx, n) THEN 0 ELSE lastProgress[i]]
            /\ spawnCount' = [i \in Pairs |-> IF i \in Slice(idx, n)
                                              THEN spawnCount[i] + 1 ELSE spawnCount[i]]
            /\ summary' = summary
            /\ pc' = "await_batch"
       ELSE /\ STATUS' = S
            /\ summary' = <<FinalStatistics(S, n)>>
            /\ pc' = "returned"
            /\ UNCHANGED <<ffmpeg, promise, duration, lastProgress, spawnCount>>

----------------------------------------------------------------------------
\* main: argument count check
MainArgs ==
    /\ pc = "main"
    /\ UNCHANGED <<files, matchList, label, event, firstDuration>>
    /\ \E argc \in {1, 2} :
         IF argc # 2
         THEN /\ reported' = reported \cup {"usage"}
              /\ exitCode' = 1
              /\ pc' = "exited"
         ELSE /\ pc' = "stat"
              /\ UNCHANGED <<reported, exitCode>>
    /\ UNCHANGED <<outputDirCreated, matches, currentIndex, STATUS, ffmpeg,
                   duration, lastProgress, promise, stdinListener, batchLog,
                   summary, acks, spawnCount, incs, outcome>>

\* main: fs.stat(inputDir) and the isDirectory test
MainStat ==
    /\ pc = "stat"
    /\ UNCHANGED <<files, matchList, label, event, firstDuration>>
    /\ \E st \in {"directory", "file", "missing"} :
         IF st = "directory"
         THEN /\ pc' = "mkdir"
              /\ UNCHANGED <<reported, exitCode>>
         ELSE /\ reported' = reported \cup {"main_error"}
              /\ exitCode' = 1
              /\ pc' = "exited"
    /\ UNCHANGED <<outputDirCreated, matches, currentIndex, STATUS, ffmpeg,
                   duration, lastProgress, promise, stdinListener, batchLog,
                   summary, acks, spawnCount, incs, outcome>>

\* batchProcess: await fs.mkdir(outputDir, {recursive: true}); a failure is
\* caught by the catch of batchProcess, which prints it and returns.
Mkdir ==
    /\ pc = "mkdir"
    /\ UNCHANGED <<files, matchList, label, event, firstDuration>>
    /\ \E ok \in BOOLEAN :
         IF ok
         THEN /\ outputDirCreated' = TRUE
              /\ pc' = "find"
              /\ UNCHANGED reported
         ELSE /\ reported' = reported \cup {"batch_error"}
              /\ pc' = "returned"
              /\ UNCHANGED outputDirCreated
    /\ UNCHANGED <<exitCode, matches, currentIndex, STATUS, ffmpeg,
                   duration, lastProgress, promise, stdinListener, batchLog,
                   summary, acks, spawnCount, incs, outcome>>

\* batchProcess: findMatchingFiles throws (readdir failed)
FindFails ==
    /\ pc = "find"
    /\ UNCHANGED <<files, matchList, label, event, firstDuration>>
    /\ reported' = reported \cup {"batch_error"}
    /\ pc' = "returned"
    /\ UNCHANGED <<exitCode, outputDirCreated, matches, currentIndex, STATUS,
                   ffmpeg, duration, lastProgress, promise, stdinListener,
                   batchLog, summary, acks, spawnCount, incs, outcome>>

\* The empty-result branch without its return: the message is printed and
\* batchProcess goes on to the reset of STATUS, the loop and the statistics.
FindNoneFallsThrough ==
    /\ pc = "find"
    /\ UNCHANGED <<files, matchList, label, event, firstDuration>>
    /\ reported' = reported \cup {"no_matches"}
    /\ matches' = 0
    /\ WhileLoop(0, 0, [total |-> 0, completed |-> 0,
                        inProgress |-> EmptyMap, results |-> EmptyMap])
    /\ UNCHANGED <<exitCode, outputDirCreated, stdinListener, batchLog,
                   acks, incs, outcome>>

\* batchProcess: findMatchingFiles returns no pair
FindNone ==
    /\ pc = "find"
    /\ UNCHANGED <<files, matchList, label, event, firstDuration>>
    /\ reported' = reported \cup {"no_matches"}
    /\ pc' = "returned"
    /\ UNCHANGED <<exitCode, outputDirCreated, matches, currentIndex, STATUS,
                   ffmpeg, duration, lastProgress, promise, stdinListener,
                   batchLog, summary, acks, spawnCount, incs, outcome>>

\* batchProcess: findMatchingFiles returns n > 0 pairs, at most m; STATUS is
\* reset and the loop runs up to the await of the first processBatch.
FindMatchesUpTo(m) ==
    /\ pc = "find"
    /\ UNCHANGED <<files, matchList, label, event, firstDuration>>
    /\ \E n \in 1..m :
         /\ matches' = n
         /\ WhileLoop(0, n, [total |-> n, completed |-> 0,
                             inProgress |-> EmptyMap, results |-> EmptyMap])
    /\ UNCHANGED <<exitCode, reported, outputDirCreated, stdinListener,
                   batchLog, acks, incs, outcome>>

FindMatches == FindMatchesUpTo(MaxPairs)

\* findMatchingFiles returns a single pair
FindSingle == FindMatchesUpTo(1)

\* Largest number of matched pairs in the runs checked for liveness.
MaxLivePairs == 3

FindFew == FindMatchesUpTo(MaxLivePairs)

----------------------------------------------------------------------------
\* A throttle that lets every update through.
ThrottleOff(p, lp) == TRUE

\* The pairs of percentages one tenth apart whose difference, computed in
\* double precision as the code does, is below 0.1:
\* 0.3 - 0.2 = 0.09999999999999998
RoundsBelowTenth == {{2, 3}}

\* Math.abs(progress - lastProgress) >= 0.1, on tenths of a point
AtLeastTenth(p, lp) == Abs(p - lp) >= 1 /\ {p, lp} \notin RoundsBelowTenth

\* The closure variable duration after the Duration block of the handler:
\* the marker is looked for only while !duration
CapturedDuration(i, durationMatch) ==
    IF duration[i] = 0 /\ durationMatch # <<>> THEN durationMatch[1] ELSE duration[i]

\* if (timeMatch && duration > 0) and the throttle test: the update is
\* applied and printProgress is called
Update(i, durationMatch, timeMatch) ==
    /\ timeMatch # <<>>
    /\ CapturedDuration(i, durationMatch) > 0
    /\ AtLeastTenth(Progress(timeMatch[1], CapturedDuration(i, durationMatch)),
                    lastProgress[i])

\* ffmpeg.stderr.on('data') on a chunk holding at most one Duration marker
\* (durationMatch) and at most one time marker (timeMatch); <<>> is no match.
StderrHandler(i, durationMatch, timeMatch) ==
    LET d == CapturedDuration(i, durationMatch)
    IN /\ duration' = [duration EXCEPT ![i] = d]
       /\ IF Update(i, durationMatch, timeMatch)
          THEN /\ lastProgress' = [lastProgress EXCEPT ![i] = Progress(timeMatch[1], d)]
               /\ STATUS' = [STATUS EXCEPT !.inProgress =
                                MapSet(@, label[i], Progress(timeMatch[1], d))]
          ELSE UNCHANGED <<lastProgress, STATUS>>

\* A stderr data event of the child of pair i
StderrData(i) ==
    /\ ffmpeg[i] = "running"
    /\ UNCHANGED <<files, matchList, label, event, firstDuration>>
    /\ NoPendingEmit
    /\ \E durationMatch \in {<<>>} \cup {<<d>> : d \in DurationValues},
          timeMatch \in {<<>>} \cup {<<t>> : t \in TimeValues} :
         StderrHandler(i, durationMatch, timeMatch)
    /\ UNCHANGED <<pc, exitCode, reported, outputDirCreated, matches,
                   currentIndex, ffmpeg, promise, stdinListener, batchLog,
                   summary, acks, spawnCount, incs, outcome>>

\* Marker values of the observed stream: durations of 0 s, 2 s and 1000 s,
\* positions of 2 s, 3 s, 3.01 s and 4 s (in hundredths of a second)
ObservedDurations == {0, 200, 100000}

ObservedTimes == {200, 300, 301, 400}

\* A stderr data event of the child of pair i, with what the handler did
\* on it recorded in the history variables
StderrObserved(i) ==
    /\ ffmpeg[i] = "running"
    /\ UNCHANGED <<files, matchList, label>>
    /\ NoPendingEmit
    /\ \E durationMatch \in {<<>>} \cup {<<d>> : d \in ObservedDurations},
          timeMatch \in {<<>>} \cup {<<t>> : t \in ObservedTimes} :
         /\ StderrHandler(i, durationMatch, timeMatch)
         /\ event' = [item     |-> i,
                      progress |-> IF timeMatch # <<>> /\ CapturedDuration(i, durationMatch) > 0
                                   THEN <<Progress(timeMatch[1], CapturedDuration(i, durationMatch))>>
                                   ELSE <<>>,
                      before   |-> lastProgress[i],
                      after    |-> lastProgress'[i],
                      stored   |-> <<STATUS.inProgress[label[i]], STATUS'.inProgress[label[i]]>>,
                      rendered |-> Update(i, durationMatch, timeMatch)]
         /\ firstDuration' = [firstDuration EXCEPT ![i] =
                                 IF @ = <<>> THEN durationMatch ELSE @]
    /\ UNCHANGED <<pc, exitCode, reported, outputDirCreated, matches,
                   currentIndex, ffmpeg, promise, stdinListener, batchLog,
                   summary, acks, spawnCount, incs, outcome>>

\* A handler that always records success (the flag is not derived from code).
FinishAlwaysTrue(S, filename, success) ==
    [S EXCEPT !.inProgress = MapDelete(@, filename),
              !.completed = @ + 1,
              !.results = MapSet(@, filename, TRUE)]

\* A handler that empties STATUS.inProgress (clear() in place of delete).
FinishClearsInProgress(S, filename, success) ==
    [S EXCEPT !.inProgress = EmptyMap,
              !.completed = @ + 1,
              !.results = MapSet(@, filename, success)]

\* A handler that leaves the item in STATUS.inProgress.
FinishKeepsInFlight(S, filename, success) ==
    [S EXCEPT !.completed = @ + 1,
              !.results = MapSet(@, filename, success)]

\* The three STATUS statements shared by the close and error handlers:
\* inProgress.delete(filename); completed++; results.set(filename, success)
Finish(S, filename, success) ==
    [S EXCEPT !.inProgress = MapDelete(@, filename),
              !.completed = @ + 1,
              !.results = MapSet(@, filename, success)]

\* The codes 'close' can carry: the exit status of a launched child, or the
\* negated errno after a launch error.
CloseCodes(state) == IF state = "errored" THEN {-2} ELSE {0, 1}

\* ffmpeg.on('close')
OnClose(i) ==
    /\ ffmpeg[i] \in {"running", "errored"}
    /\ UNCHANGED <<files, matchList, label, event, firstDuration>>
    /\ \A j \in Pairs : ffmpeg[j] = "errored" => j = i
    /\ \E code \in CloseCodes(ffmpeg[i]) :
         /\ STATUS' = Finish(STATUS, label[i], code = 0)
         /\ promise' = [promise EXCEPT ![i] =
                           IF @ # "pending" THEN @
                           ELSE IF code = 0 THEN "fulfilled" ELSE "rejected_exit"]
         /\ outcome' = [outcome EXCEPT ![i] =
                           IF ffmpeg[i] = "errored" THEN @
                           ELSE IF code = 0 THEN "exit0" ELSE "exitN"]
    /\ ffmpeg' = [ffmpeg EXCEPT ![i] = "closed"]
    /\ incs' = [incs EXCEPT ![i] = @ + 1]
    /\ UNCHANGED <<pc, exitCode, reported, outputDirCreated, matches,
                   currentIndex, duration, lastProgress, stdinListener,
                   batchLog, summary, acks, spawnCount>>

\* ffmpeg.on('error'): the child could not be launched
OnError(i) ==
    /\ ffmpeg[i] = "running"
    /\ UNCHANGED <<files, matchList, label, event, firstDuration>>
    /\ NoPendingEmit
    /\ STATUS' = Finish(STATUS, label[i], FALSE)
    /\ promise' = [promise EXCEPT ![i] = IF @ # "pending" THEN @ ELSE "rejected_spawn"]
    /\ outcome' = [outcome EXCEPT ![i] = "launch"]
    /\ ffmpeg' = [ffmpeg EXCEPT ![i] = "errored"]
    /\ incs' = [incs EXCEPT ![i] = @ + 1]
    /\ UNCHANGED <<pc, exitCode, reported, outputDirCreated, matches,
                   currentIndex, duration, lastProgress, stdinListener,
                   batchLog, summary, acks, spawnCount>>

----------------------------------------------------------------------------
\* Promise.race in place of Promise.all: one settled task is enough.
AllSettledRace(start, n) == \E i \in Slice(start, n) : promise[i] # "pending"

\* Promise.all(tasks) of processBatch: every task of the slice has settled
AllSettled(start, n) == \A i \in Slice(start, n) : promise[i] # "pending"

\* A batch report that lists only the failures by exit status.
BatchReportExitOnly(start, n) ==
    [successful |-> Cardinality({i \in Slice(start, n) : promise[i] = "fulfilled"}),
     failed     |-> {<<i, promise[i]>> : i \in {j \in Slice(start, n) : promise[j] = "rejected_exit"}}]

\* The BatchResult values of the slice and the batch report printed from them
BatchReport(start, n) ==
    [successful |-> Cardinality({i \in Slice(start, n) : promise[i] = "fulfilled"}),
     failed     |-> {<<i, promise[i]>> : i \in {j \in Slice(start, n) : promise[j] # "fulfilled"}}]

\* The gate that is never entered.
NeedsGateNever(idx, n) == FALSE

\* if (currentIndex < matches.length), after currentIndex += BATCH_SIZE
NeedsGate(idx, n) == idx < n

\* batchProcess: the continuation of `await processBatch(...)`: batch tally,
\* currentIndex += BATCH_SIZE, then the gate or the end of the loop.
BatchSettled ==
    /\ pc = "await_batch"
    /\ UNCHANGED <<files, matchList, label, event, firstDuration>>
    /\ NoPendingEmit
    /\ AllSettled(currentIndex, matches)
    /\ batchLog' = Append(batchLog, BatchReport(currentIndex, matches))
    /\ IF NeedsGate(currentIndex + BATCH_SIZE, matches)
       THEN /\ currentIndex' = currentIndex + BATCH_SIZE
            /\ stdinListener' = TRUE
            /\ pc' = "gate"
            /\ UNCHANGED <<STATUS, ffmpeg, promise, duration, lastProgress,
                           spawnCount, summary>>
       ELSE /\ WhileLoop(currentIndex + BATCH_SIZE, matches, STATUS)
            /\ UNCHANGED stdinListener
    /\ UNCHANGED <<exitCode, reported, outputDirCreated, matches, acks,
                   incs, outcome>>

\* process.stdin.once('data', () => resolve()): the operator's acknowledgment
\* resolves the gate and the loop goes on with the next batch.
StdinData ==
    /\ pc = "gate"
    /\ UNCHANGED <<files, matchList, label, event, firstDuration>>
    /\ stdinListener
    /\ NoPendingEmit
    /\ stdinListener' = FALSE
    /\ acks' = acks + 1
    /\ WhileLoop(currentIndex, matches, STATUS)
    /\ UNCHANGED <<exitCode, reported, outputDirCreated, matches, batchLog,
                   incs, outcome>>

\* batchProcess and main have returned and nothing keeps the event loop
\* alive: the process ends with the exit status it has, 0.
ProcessExit ==
    /\ pc = "returned"
    /\ UNCHANGED <<files, matchList, label, event, firstDuration>>
    /\ \A i \in Pairs : ffmpeg[i] \in {"none", "closed"}
    /\ pc' = "exited"
    /\ UNCHANGED <<exitCode, reported, outputDirCreated, matches, currentIndex,
                   STATUS, ffmpeg, duration, lastProgress, promise,
                   stdinListener, batchLog, summary, acks, spawnCount, incs,
                   outcome>>

----------------------------------------------------------------------------
Next ==
    \/ MainArgs
    \/ MainStat
    \/ Mkdir
    \/ FindFails
    \/ FindNone
    \/ FindMatches
    \/ \E i \in Pairs : StderrData(i)
    \/ \E i \in Pairs : OnClose(i)
    \/ \E i \in Pairs : OnError(i)
    \/ BatchSettled
    \/ StdinData
    \/ ProcessExit

Spec == Init /\ [][Next]_vars

\* The run of a single conversion with its error stream observed
NextStderr ==
    \/ MainArgs
    \/ MainStat
    \/ Mkdir
    \/ FindFails
    \/ FindNone
    \/ FindSingle
    \/ \E i \in Pairs : StderrObserved(i)
    \/ \E i \in Pairs : OnClose(i)
    \/ \E i \in Pairs : OnError(i)
    \/ BatchSettled
    \/ ProcessExit

SpecStderr == Init /\ [][NextStderr]_vars

\* The runs in which every spawned child process delivers its terminating
\* event: 'close' stays enabled from the spawn on until it is delivered.
NextLive ==
    \/ MainArgs
    \/ MainStat
    \/ Mkdir
    \/ FindFails
    \/ FindNone
    \/ FindFew
    \/ \E i \in Pairs : StderrData(i)
    \/ \E i \in Pairs : OnClose(i)
    \/ \E i \in Pairs : OnError(i)
    \/ BatchSettled
    \/ StdinData
    \/ ProcessExit

SpecLive ==
    /\ Init
    /\ [][NextLive]_vars
    /\ \A i \in Pairs : WF_vars(OnClose(i))

----------------------------------------------------------------------------
\* findMatchingFiles.  A directory entry is [name, ext], the results of
\* path.parse(file).name and path.extname(file), both sequences of
\* characters; the entry also stands for its path path.join(inputDir, file).

\* Largest number of entries of the input directory in the model.
MaxFiles == 4

Entry(n, e) == [name |-> n, ext |-> e]

\* The entries a listing is drawn from: a.mp4, a.MKV, A_.mp4, b.mp4,
\* a.srt, A_.SRT, b.srt, a.txt
DirEntries ==
    {Entry(<<"a">>, <<".", "m", "p", "4">>),
     Entry(<<"a">>, <<".", "M", "K", "V">>),
     Entry(<<"A", "_">>, <<".", "m", "p", "4">>),
     Entry(<<"b">>, <<".", "m", "p", "4">>),
     Entry(<<"a">>, <<".", "s", "r", "t">>),
     Entry(<<"A", "_">>, <<".", "S", "R", "T">>),
     Entry(<<"b">>, <<".", "s", "r", "t">>),
     Entry(<<"a">>, <<".", "t", "x", "t">>)}

\* The listings fs.readdir can return: distinct entries in any order
Listings ==
    {l \in UNION {[1..n -> DirEntries] : n \in 0..MaxFiles} :
        \A x, y \in 1..Len(l) : x # y => l[x] # l[y]}

\* CONFIG.videoExtensions and CONFIG.subtitleExtensions
videoExtensions ==
    {<<".", "m", "p", "4">>, <<".", "m", "k", "v">>,
     <<".", "a", "v", "i">>, <<".", "m", "o", "v">>}

subtitleExtensions == {<<".", "s", "r", "t">>}

\* String.prototype.toLowerCase
ToLowerChar(c) ==
    CASE c = "A" -> "a" [] c = "B" -> "b" [] c = "K" -> "k" [] c = "M" -> "m"
      [] c = "R" -> "r" [] c = "S" -> "s" [] c = "T" -> "t" [] c = "V" -> "v"
      [] OTHER -> c

ToLowerCase(str) == [k \in 1..Len(str) |-> ToLowerChar(str[k])]

\* The characters of the class [\s\-_\[\]()]
StrippedChars == {" ", "-", "_", "[", "]", "(", ")"}

\* A key that keeps the case of the name.
NormalizeKeepCase(name) == SelectSeq(name, LAMBDA c : c \notin StrippedChars)

\* nameWithoutExt: path.parse(file).name.toLowerCase().replace(/[\s\-_\[\]()]/g, '')
Normalize(name) == SelectSeq(ToLowerCase(name), LAMBDA c : c \notin StrippedChars)

\* A JavaScript Map in insertion order: a sequence of <<key, value>>
SeqMapHas(m, k) == \E x \in 1..Len(m) : m[x][1] = k

SeqMapGet(m, k) == m[CHOOSE x \in 1..Len(m) : m[x][1] = k][2]

\* Map.set that keeps the value of a key already present (first wins).
SeqMapSetKeepFirst(m, k, v) ==
    IF SeqMapHas(m, k) THEN m ELSE Append(m, <<k, v>>)

\* Map.set: the value of a key already present is replaced in place
SeqMapSet(m, k, v) ==
    IF SeqMapHas(m, k)
    THEN [x \in 1..Len(m) |-> IF m[x][1] = k THEN <<k, v>> ELSE m[x]]
    ELSE Append(m, <<k, v>>)

\* A list of videos in place of the map: every video is kept.
RECURSIVE VideosKeepAll(_, _)
VideosKeepAll(fs, n) ==
    IF n = 0 THEN <<>>
    ELSE IF ToLowerCase(fs[n].ext) \in videoExtensions
         THEN Append(VideosKeepAll(fs, n - 1), <<Normalize(fs[n].name), fs[n]>>)
         ELSE VideosKeepAll(fs, n - 1)

\* The map `videos` after the first n entries of the listing
RECURSIVE Videos(_, _)
Videos(fs, n) ==
    IF n = 0 THEN <<>>
    ELSE IF ToLowerCase(fs[n].ext) \in videoExtensions
         THEN SeqMapSet(Videos(fs, n - 1), Normalize(fs[n].name), fs[n])
         ELSE Videos(fs, n - 1)

\* The map `subtitles` after the first n entries of the listing
RECURSIVE Subtitles(_, _)
Subtitles(fs, n) ==
    IF n = 0 THEN <<>>
    ELSE IF /\ ToLowerCase(fs[n].ext) \notin videoExtensions
            /\ ToLowerCase(fs[n].ext) \in subtitleExtensions
         THEN SeqMapSet(Subtitles(fs, n - 1), Normalize(fs[n].name), fs[n])
         ELSE Subtitles(fs, n - 1)

\* The array `matches` built from the two maps
findMatchingFiles(fs) ==
    LET videos == Videos(fs, Len(fs))
        subtitles == Subtitles(fs, Len(fs))
        hits == SelectSeq(videos, LAMBDA e : SeqMapHas(subtitles, e[1]))
    IN [k \in 1..Len(hits) |->
           [video |-> hits[k][2], subtitle |-> SeqMapGet(subtitles, hits[k][1])]]

\* path.basename(videoPath): the name of the entry
Basename(file) == file.name \o file.ext

\* The outputFile of processBatch, inside outputDir:
\* `${path.parse(match.video).name}_output.mp4`
OutputFile(match) == match.video.name \o <<"_output.mp4">>

\* The state at the start of main, for a listing of the input directory
InitMatch ==
    /\ InitRun
    /\ files \in Listings

\* batchProcess: findMatchingFiles(inputDir) returns; with no pair the
\* message is printed and batchProcess returns, otherwise STATUS is reset
\* and the loop runs up to the await of the first processBatch.
FindListing ==
    /\ pc = "find"
    /\ UNCHANGED <<files, event, firstDuration>>
    /\ LET m == findMatchingFiles(files)
       IN /\ matchList' = m
          /\ label' = [i \in Pairs |-> IF i <= Len(m) THEN Basename(m[i].video) ELSE label[i]]
          /\ IF Len(m) = 0
             THEN /\ reported' = reported \cup {"no_matches"}
                  /\ pc' = "returned"
                  /\ UNCHANGED <<matches, currentIndex, STATUS, ffmpeg, duration,
                                 lastProgress, promise, summary, spawnCount>>
             ELSE /\ matches' = Len(m)
                  /\ WhileLoop(0, Len(m), [total |-> Len(m), completed |-> 0,
                                           inProgress |-> EmptyMap, results |-> EmptyMap])
                  /\ UNCHANGED reported
    /\ UNCHANGED <<exitCode, outputDirCreated, stdinListener, batchLog, acks,
                   incs, outcome>>

\* The run up to the result of findMatchingFiles, for every listing
NextMatch ==
    \/ MainArgs
    \/ MainStat
    \/ Mkdir
    \/ FindFails
    \/ FindListing
    \/ ProcessExit

SpecMatch == InitMatch /\ [][NextMatch]_vars

\* The run of the conversions of the pairs found in a listing, with STATUS
\* keyed by their labels
NextKeys ==
    \/ MainArgs
    \/ MainStat
    \/ Mkdir
    \/ FindFails
    \/ FindListing
    \/ \E i \in Pairs : StderrData(i)
    \/ \E i \in Pairs : OnClose(i)
    \/ \E i \in Pairs : OnError(i)
    \/ BatchSettled
    \/ ProcessExit

SpecKeys == InitMatch /\ [][NextKeys]_vars

----------------------------------------------------------------------------
\* Vocabulary of the properties

\* The batch (1, 2, ...) the i-th pair belongs to
BatchOf(i) == ((i - 1) \div BATCH_SIZE) + 1

\* Number of batches of a run with n pairs
NumBatches(n) == (n + BATCH_SIZE - 1) \div BATCH_SIZE

\* Number of batches whose conversions have been started
BatchesStarted == Cardinality({BatchOf(i) : i \in {j \in Pairs : spawnCount[j] > 0}})

Min(a, b) == IF a < b THEN a ELSE b

\* The pairs whose conversion has finished (a finish handler has run)
Finished == {i \in Pairs : outcome[i] # "none"}

InitialSTATUS == [total |-> 0, completed |-> 0,
                  inProgress |-> EmptyMap, results |-> EmptyMap]

----------------------------------------------------------------------------
\* C1: batch barrier. Whenever a conversion of a later batch has been
\* started, every conversion of every earlier batch has settled and its
\* child process has exited ('close' delivered).
C1_BatchBarrier ==
    \A i, j \in Pairs :
        (BatchOf(i) < BatchOf(j) /\ spawnCount[j] > 0)
            => (ffmpeg[i] = "closed" /\ promise[i] \notin {"none", "pending"})

\* A conversion of the second batch runs after a first batch in which one
\* child could not be launched and the other one exited normally.
C1_Witness ==
    /\ ffmpeg[BATCH_SIZE + 1] = "running"
    /\ outcome[1] = "launch"
    /\ outcome[2] = "exit0"

\* C2: in each of the three outcomes the item is removed from
\* STATUS.inProgress and STATUS.completed is incremented exactly once for it.
C2_FinishedCountedOnce ==
    \A i \in Pairs :
        ffmpeg[i] = "closed" => (i \notin DOMAIN STATUS.inProgress /\ incs[i] = 1)

\* C3: STATUS.completed equals the number of pairs whose conversion has
\* finished, and 0 <= completed <= total.
C3_CompletedCountsFinished ==
    /\ STATUS.completed = Cardinality(Finished)
    /\ 0 <= STATUS.completed
    /\ STATUS.completed <= STATUS.total

\* C4: every finished item is in STATUS.results with the flag "the encoder
\* exited with status 0", results holds nothing but finished items, and an
\* entry of results is never removed nor changed.
C4_ResultsRecordOutcome ==
    /\ [](/\ DOMAIN STATUS.results = Finished
          /\ \A i \in Finished : STATUS.results[i] = (outcome[i] = "exit0"))
    /\ [][\A k \in DOMAIN STATUS.results :
             /\ k \in DOMAIN STATUS'.results
             /\ STATUS'.results[k] = STATUS.results[k]]_vars

\* The run has ended with one item of each outcome recorded.
C4_Witness ==
    /\ pc = "exited"
    /\ \E i, j, k \in DOMAIN STATUS.results :
         outcome[i] = "exit0" /\ outcome[j] = "exitN" /\ outcome[k] = "launch"

\* C5: when processBatch has returned for the k-th time, STATUS.completed
\* is min(k * BATCH_SIZE, N).
C5_CompletedAfterBatch ==
    (pc \in {"gate", "returned", "exited"} /\ Len(batchLog) >= 1)
        => STATUS.completed = Min(Len(batchLog) * BATCH_SIZE, matches)

\* C6: operator gate. Each batch after the first one is started by one
\* acknowledgment, the listener is registered only between two batches,
\* when every started conversion is over and pairs remain, and the final
\* summary is reached with one acknowledgment less than there are batches.
C6_OperatorGate ==
    /\ BatchesStarted >= 1 => acks = BatchesStarted - 1
    /\ stdinListener =>
          /\ pc = "gate"
          /\ currentIndex < matches
          /\ Len(batchLog) = acks + 1
          /\ \A i \in Pairs : spawnCount[i] > 0 => ffmpeg[i] = "closed"
    /\ pc = "gate" => stdinListener
    /\ summary # <<>> => (~stdinListener /\ acks = NumBatches(matches) - 1)

\* The final summary of a run of several batches has been printed.
C6_Witness ==
    /\ summary # <<>>
    /\ acks >= 1
    /\ acks = NumBatches(matches) - 1

\* C7: the encoder is spawned at most once per pair, and when the run is
\* over it has been spawned exactly once for each matched pair and for
\* nothing else, whatever the outcomes.
C7_SpawnedExactlyOnce ==
    /\ \A i \in Pairs : spawnCount[i] <= 1
    /\ (pc \in {"returned", "exited"} /\ matches > 0) =>
          /\ \A i \in 1..matches : spawnCount[i] = 1 /\ ffmpeg[i] = "closed"
          /\ \A i \in Pairs \ (1..matches) : spawnCount[i] = 0

\* A run of several batches is over whose first batch had a launch error
\* and a non-zero exit, and a later conversion succeeded.
C7_Witness ==
    /\ pc = "returned"
    /\ matches > BATCH_SIZE
    /\ outcome[1] = "launch"
    /\ outcome[2] = "exitN"
    /\ outcome[matches] = "exit0"

\* C8: the final summary reports total N, as successes the pairs whose
\* encoder exited with status 0 and as failures the others; every failed
\* pair is listed with its label and its error message in the failure
\* listing of its batch.
C8_SummaryAndListing ==
    summary # <<>> =>
        /\ summary[1].total = matches
        /\ summary[1].success = Cardinality({i \in 1..matches : outcome[i] = "exit0"})
        /\ summary[1].failure = matches - summary[1].success
        /\ Len(batchLog) = NumBatches(matches)
        /\ \A k \in 1..Len(batchLog) :
              /\ batchLog[k].failed =
                    {<<i, IF outcome[i] = "launch" THEN "rejected_spawn" ELSE "rejected_exit">> :
                        i \in {j \in 1..matches : BatchOf(j) = k /\ outcome[j] # "exit0"}}
              /\ batchLog[k].successful =
                    Cardinality({j \in 1..matches : BatchOf(j) = k /\ outcome[j] = "exit0"})

\* Three pairs, one of which exited with a non-zero status: 3 total,
\* 2 successes, 1 failure.
C8_Witness ==
    /\ summary = <<[total |-> 3, success |-> 2, failure |-> 1]>>
    /\ \E i \in 1..3 : outcome[i] = "exitN"

\* C9: when the output directory cannot be created or the input directory
\* cannot be read, no encoder is spawned, the error is reported and the
\* process exits with a non-zero status.
C9_AbortExitsNonZero ==
    ("batch_error" \in reported /\ pc = "exited") =>
        /\ \A i \in Pairs : spawnCount[i] = 0
        /\ exitCode # 0

\* C10: with zero pairs batchProcess reports "no matches" and returns after
\* creating the output directory: nothing is spawned, no acknowledgment is
\* awaited, nothing else is printed, STATUS is untouched and the process
\* exits with status 0.
C10_NoMatches ==
    "no_matches" \in reported =>
        /\ outputDirCreated
        /\ reported = {"no_matches"}
        /\ pc \in {"returned", "exited"}
        /\ \A i \in Pairs : spawnCount[i] = 0 /\ ffmpeg[i] = "none"
        /\ ~stdinListener /\ acks = 0
        /\ batchLog = <<>> /\ summary = <<>>
        /\ STATUS = InitialSTATUS
        /\ exitCode = 0

\* The process has exited after reporting that nothing matched.
C10_Witness ==
    /\ pc = "exited"
    /\ "no_matches" \in reported

----------------------------------------------------------------------------
\* Vocabulary of the properties on findMatchingFiles

\* findMatchingFiles has returned its result
MatcherRan == outputDirCreated /\ pc # "find" /\ "batch_error" \notin reported

IsVideo(f) == ToLowerCase(f.ext) \in videoExtensions

IsSubtitle(f) == ToLowerCase(f.ext) \in subtitleExtensions

\* The normalized basename of the glossary: lower-cased, with whitespace
\* and the characters - _ [ ] ( ) removed
RECURSIVE NormalizedBasename(_)
NormalizedBasename(name) ==
    IF name = <<>> THEN <<>>
    ELSE IF Head(name) \in {" ", "-", "_", "[", "]", "(", ")"}
         THEN NormalizedBasename(Tail(name))
         ELSE <<ToLowerChar(Head(name))>> \o NormalizedBasename(Tail(name))

SameKey(f, g) == NormalizedBasename(f.name) = NormalizedBasename(g.name)

FileIndexes == 1..Len(files)

\* files[x] is the last-enumerated video (subtitle) of its normalized name
LastVideo(x) ==
    /\ IsVideo(files[x])
    /\ \A y \in FileIndexes : (y > x /\ IsVideo(files[y])) => ~SameKey(files[x], files[y])

LastSubtitle(x) ==
    /\ IsSubtitle(files[x])
    /\ \A y \in FileIndexes : (y > x /\ IsSubtitle(files[y])) => ~SameKey(files[x], files[y])

\* Number of pairs {v, s} in the result
PairCount(v, s) ==
    Cardinality({k \in 1..Len(matchList) : matchList[k] = [video |-> v, subtitle |-> s]})

\* Every pair of the result joins a video and a subtitle of the listing that
\* have the same normalized basename
PairsAreMatches ==
    \A k \in 1..Len(matchList) :
        /\ \E x \in FileIndexes : files[x] = matchList[k].video /\ IsVideo(files[x])
        /\ \E x \in FileIndexes : files[x] = matchList[k].subtitle /\ IsSubtitle(files[x])
        /\ SameKey(matchList[k].video, matchList[k].subtitle)

\* C11 (as stated): exactly one pair {V, S} for each video V and subtitle S
\* of the listing with equal normalized basenames, and no pair containing a
\* video or a subtitle without such a partner.
C11_OnePairPerMatch ==
    MatcherRan =>
        /\ \A x, y \in FileIndexes :
              (IsVideo(files[x]) /\ IsSubtitle(files[y]) /\ SameKey(files[x], files[y]))
                  => PairCount(files[x], files[y]) = 1
        /\ PairsAreMatches

\* C11 (amended): exactly one pair {V, S} for each video V and subtitle S
\* of the listing with equal normalized basenames that are each the
\* last-enumerated file of their class with that normalized name, and no
\* other pair.
C11_OnePairPerLastMatch ==
    MatcherRan =>
        /\ \A x, y \in FileIndexes :
              (IsVideo(files[x]) /\ IsSubtitle(files[y]) /\ SameKey(files[x], files[y]))
                  => PairCount(files[x], files[y]) =
                        IF LastVideo(x) /\ LastSubtitle(y) THEN 1 ELSE 0
        /\ PairsAreMatches

\* A pair was produced from names that differ in case and in a stripped
\* character, next to an entry that is in neither class and to a video
\* that has no subtitle.
C11_Witness ==
    /\ MatcherRan
    /\ \E k \in 1..Len(matchList) : matchList[k].video.name # matchList[k].subtitle.name
    /\ \E x \in FileIndexes : ~IsVideo(files[x]) /\ ~IsSubtitle(files[x])
    /\ \E x \in FileIndexes :
          /\ IsVideo(files[x])
          /\ \A y \in FileIndexes : IsSubtitle(files[y]) => ~SameKey(files[x], files[y])

\* The pairs of the result whose video has the normalized name of f
PairsOfKey(f) == {k \in 1..Len(matchList) : SameKey(matchList[k].video, f)}

\* C12 (as stated): for two videos whose normalized names collide exactly
\* one pair is produced for that name and it holds the later-enumerated
\* video.
C12_CollisionLastWins ==
    MatcherRan =>
        \A x, y \in FileIndexes :
            (x < y /\ LastVideo(y) /\ IsVideo(files[x]) /\ SameKey(files[x], files[y]))
                => /\ Cardinality(PairsOfKey(files[y])) = 1
                   /\ \A k \in PairsOfKey(files[y]) : matchList[k].video = files[y]

\* C12 (amended): the same, when the listing holds a subtitle of that
\* normalized name.
C12_CollisionLastWinsWithSubtitle ==
    MatcherRan =>
        \A x, y \in FileIndexes :
            (/\ x < y /\ LastVideo(y) /\ IsVideo(files[x]) /\ SameKey(files[x], files[y])
             /\ \E z \in FileIndexes : IsSubtitle(files[z]) /\ SameKey(files[z], files[y]))
                => /\ Cardinality(PairsOfKey(files[y])) = 1
                   /\ \A k \in PairsOfKey(files[y]) : matchList[k].video = files[y]

\* Two colliding videos precede their subtitle and the single pair holds
\* the later one.
C12_Witness ==
    /\ MatcherRan
    /\ Len(files) >= 3
    /\ IsVideo(files[1]) /\ IsVideo(files[2]) /\ SameKey(files[1], files[2])
    /\ matchList = <<[video |-> files[2], subtitle |-> files[3]]>>

\* C19: no two matched pairs of a run are given the same output path.
C19_OutputPathsDistinct ==
    MatcherRan =>
        \A j, k \in 1..Len(matchList) :
            j # k => OutputFile(matchList[j]) # OutputFile(matchList[k])

\* Two pairs were produced, so two conversions write two output files.
C19_Witness ==
    /\ MatcherRan
    /\ Len(matchList) = 2
    /\ OutputFile(matchList[1]) = <<"A", "_", "_output.mp4">>
    /\ OutputFile(matchList[2]) = <<"b", "_output.mp4">>

\* The keys of a map that a step creates, overwrites or deletes
Touched(m, n) ==
    {k \in (DOMAIN m) \cup (DOMAIN n) :
        \/ k \notin DOMAIN m
        \/ k \notin DOMAIN n
        \/ m[k] # n[k]}

\* C17: key isolation. No two tasks of a run share a label, and an entry of
\* STATUS.inProgress or STATUS.results is created, overwritten or deleted
\* only in a step of the task that owns its key (a step in which that
\* task's child process or closure variables change).
C17_KeyIsolation ==
    /\ [](MatcherRan =>
            \A j, k \in 1..Len(matchList) : j # k => label[j] # label[k])
    /\ [][\A t \in 1..matches' :
             (label'[t] \in Touched(STATUS.inProgress, STATUS'.inProgress)
                              \cup Touched(STATUS.results, STATUS'.results))
                 => (ffmpeg'[t] # ffmpeg[t] \/ lastProgress'[t] # lastProgress[t])]_vars

\* One task of a batch has finished while the other one is still in flight
\* with a recorded progress.
C17_Witness ==
    /\ matches = 2
    /\ ffmpeg[1] = "closed" /\ ffmpeg[2] = "running"
    /\ label[1] \in DOMAIN STATUS.results
    /\ label[2] \in DOMAIN STATUS.inProgress
    /\ STATUS.inProgress[label[2]] # 0

----------------------------------------------------------------------------
\* C13: throttle. A progress update whose percentage differs from the last
\* recorded one by less than 0.1 point changes neither STATUS.inProgress nor
\* the last recorded value and renders nothing; an update is applied, and
\* rendered, only when the difference is at least 0.1 point, and then the
\* new percentage is what is recorded.
C13_Throttle ==
    event.progress # <<>> =>
        /\ Abs(event.progress[1] - event.before) < 1 =>
              /\ ~event.rendered
              /\ event.after = event.before
              /\ event.stored[2] = event.stored[1]
        /\ event.rendered =>
              /\ Abs(event.progress[1] - event.before) >= 1
              /\ event.after = event.progress[1]
              /\ event.stored[2] = event.progress[1]
        /\ ~event.rendered =>
              /\ event.after = event.before
              /\ event.stored[2] = event.stored[1]

\* An update to 0.3 % arrived when 0.3 % was the last recorded value and
\* was dropped.
C13_Witness ==
    /\ event.progress = <<3>>
    /\ event.before = 3
    /\ ~event.rendered
    /\ STATUS.inProgress[label[event.item]] = 3

\* C14: every percentage stored in STATUS.inProgress lies in [0, 100].
C14_PercentageInRange ==
    \A k \in DOMAIN STATUS.inProgress :
        0 <= STATUS.inProgress[k] /\ STATUS.inProgress[k] <= 1000

\* C15: the duration is the one of the first Duration marker of the stream
\* from then on; later markers are ignored.
C15_DurationCapturedOnce ==
    \A i \in Pairs :
        firstDuration[i] # <<>> => duration[i] = firstDuration[i][1]

\* The label of pair i is in flight / is recorded and no longer in flight
InFlight(i) == label[i] \in DOMAIN STATUS.inProgress

Recorded(i) == label[i] \in DOMAIN STATUS.results /\ ~InFlight(i)

\* C16: when every spawned child process delivers a terminating event,
\* every label placed in STATUS.inProgress is eventually removed from it
\* and recorded in STATUS.results, it stays so, and STATUS.inProgress is
\* empty when the final summary is printed.
C16_InFlightEventuallyRecorded ==
    /\ \A i \in Pairs : InFlight(i) ~> Recorded(i)
    /\ [][\A i \in Pairs : Recorded(i) => Recorded(i)']_vars
    /\ [](summary # <<>> => DOMAIN STATUS.inProgress = {})

\* The summary of a run of two batches has been printed, every pair is
\* recorded and one of them could not be launched.
C16_Witness ==
    /\ summary # <<>>
    /\ matches = MaxLivePairs
    /\ \A i \in 1..matches : Recorded(i)
    /\ \E i \in 1..matches : outcome[i] = "launch"

RECURSIVE SumSuccessful(_)
SumSuccessful(log) ==
    IF log = <<>> THEN 0 ELSE Head(log).successful + SumSuccessful(Tail(log))

RECURSIVE SumFailed(_)
SumFailed(log) ==
    IF log = <<>> THEN 0 ELSE Cardinality(Head(log).failed) + SumFailed(Tail(log))

\* C18: the batch success counts add up to the final success count and the
\* batch failure counts to the final failure count.
C18_TalliesAgree ==
    summary # <<>> =>
        /\ SumSuccessful(batchLog) = summary[1].success
        /\ SumFailed(batchLog) = summary[1].failure

\* The summary of a run of several batches with a success, a non-zero exit
\* and a launch error has been printed.
C18_Witness ==
    /\ summary # <<>>
    /\ Len(batchLog) >= 2
    /\ \E i, j, k \in 1..matches :
          outcome[i] = "exit0" /\ outcome[j] = "exitN" /\ outcome[k] = "launch"

====
